---- MODULE Spec2Model ----
(***************************************************************************)
(* Terminal display controller of kickstart (src/src/header.py):           *)
(* FixedHeader, its OutputInterceptor and the SIGWINCH handler.            *)
(*                                                                         *)
(* A text is a sequence of one-character strings.  The real stream is the  *)
(* sequence of texts it received.  The main thread runs one public         *)
(* operation at a time; the resize handler runs on top of whatever the     *)
(* main thread (or an earlier handler) was doing, so the control state is  *)
(* a stack of frames and only the top frame takes steps.                   *)
(***************************************************************************)
EXTENDS Integers, Sequences, FiniteSets, TLC

(* ------------------------------ bounds -------------------------------- *)

\* step_output never grows past MaxLog entries (a capturing write is not
\* taken when the log is full).
MaxLog == 2
\* An operation of the main thread, or a handler that interrupted nothing, is
\* interrupted by at most MaxInterrupts redraws (a signal raised beyond that
\* stays pending until the operation has returned).
MaxInterrupts == 1

\* The longest text and the widest terminal format_status_line is applied to
\* on its own.
MaxText == 4
MaxWidth == 6

(* ---------------------------- characters ------------------------------ *)

NL == "\n"
ESC == "ESC"
\* sys.stdout.flush() as it shows on the stream: a marker that is no text.
FLUSH == <<"<flush>">>

Digit(d) == CASE d = 0 -> "0" [] d = 1 -> "1" [] d = 2 -> "2" [] d = 3 -> "3"
              [] d = 4 -> "4" [] d = 5 -> "5" [] d = 6 -> "6" [] d = 7 -> "7"
              [] d = 8 -> "8" [] OTHER -> "9"

RECURSIVE Dec(_)
\* f"{n}" of a non-negative int
Dec(n) == IF n < 10 THEN <<Digit(n)>> ELSE Dec(n \div 10) \o <<Digit(n % 10)>>

(* ----------------------- escape-sequence library ---------------------- *)

SAVE_CURSOR == <<ESC, "[", "s">>
RESTORE_CURSOR == <<ESC, "[", "u">>
CLEAR_SCREEN == <<ESC, "[", "2", "J">>
MOVE_HOME == <<ESC, "[", "H">>
CLEAR_LINE == <<ESC, "[", "2", "K">>
HIDE_CURSOR == <<ESC, "[", "?", "2", "5", "l">>
SHOW_CURSOR == <<ESC, "[", "?", "2", "5", "h">>

move_to(row, col) == <<ESC, "[">> \o Dec(row) \o <<";">> \o Dec(col) \o <<"H">>

set_scroll_region(top, bottom) ==
  <<ESC, "[">> \o Dec(top) \o <<";">> \o Dec(bottom) \o <<"r">>

reset_scroll_region == <<ESC, "[", "r">>

\* src.ansi_codes is not among the sources: the accent colour and the reset.
green == <<ESC, "[", "3", "2", "m">>
reset == <<ESC, "[", "0", "m">>

Min(a, b) == IF a < b THEN a ELSE b
Max(a, b) == IF a > b THEN a ELSE b

\* text[:n] of Python: a negative n counts from the end.
SliceTo(text, n) ==
  LET k == IF n >= 0 THEN Min(n, Len(text)) ELSE Max(Len(text) + n, 0)
  IN SubSeq(text, 1, k)

truncate_to_fit(text, max_width) ==
  IF Len(text) <= max_width - 1
    THEN text
    ELSE SliceTo(text, max_width - 4) \o <<".", ".", ".">>

\* str.ljust(width): pads on the right, never cuts.
ljust(text, width) ==
  text \o [k \in 1..Max(width - Len(text), 0) |-> " "]

RECURSIVE count_newlines(_)
count_newlines(text) ==
  IF text = <<>> THEN 0
  ELSE (IF Head(text) = NL THEN 1 ELSE 0) + count_newlines(Tail(text))

\* text.removesuffix("\n"): at most one trailing newline is removed
rstrip_newlines_once(text) ==
  IF text # <<>> /\ text[Len(text)] = NL
    THEN SubSeq(text, 1, Len(text) - 1)
    ELSE text

RECURSIVE rstrip_newlines(_)
\* text.rstrip("\n")
rstrip_newlines(text) ==
  IF text # <<>> /\ text[Len(text)] = NL
    THEN rstrip_newlines(SubSeq(text, 1, Len(text) - 1))
    ELSE text

endswith_newline(text) == text # <<>> /\ text[Len(text)] = NL

\* a cursor that moves down one line however many newlines the text holds
get_new_cursor_position_one_line(text, current_line, current_col) ==
  IF count_newlines(text) > 0
    THEN <<current_line + 1, 1>>
    ELSE <<current_line, current_col + Len(text)>>

get_new_cursor_position(text, current_line, current_col) ==
  IF count_newlines(text) > 0
    THEN <<current_line + count_newlines(text), 1>>
    ELSE <<current_line, current_col + Len(text)>>

format_status_line(text, terminal_width) ==
  green \o ljust(truncate_to_fit(text, terminal_width), terminal_width) \o reset

(* ------------------------------- inputs ------------------------------- *)

\* Terminal sizes the OS can report, <<lines, columns>>.
Sizes == {<<3, 8>>, <<4, 8>>, <<5, 10>>}
\* Arguments of set_header_content: the header lines and the status row.
Headers == {[lines |-> <<<<"H">>>>, pos |-> 1],
            [lines |-> <<<<"H">>, <<"G">>>>, pos |-> 3]}
\* Arguments of update_status.
Messages == {<<"m">>}
\* Arguments of the body's sys.stdout.write (print(x) is write(x), write("\n")).
Texts == {<<>>, <<"a">>, <<NL>>, <<"a", NL, NL>>}

\* The inputs drawn where the resize handler interrupts the operations.
AsyncHeaders == {[lines |-> <<<<"H">>>>, pos |-> 1]}
AsyncMessages == {<<"m">>}
AsyncTexts == {<<"a">>, <<NL>>}
AsyncSizes == {<<4, 8>>, <<5, 10>>}

\* The end-to-end scenario: two header lines, the status on row 3, a
\* terminal of 24 by 80 that is resized to 30 by 100.
ScenarioHeader == [lines |-> <<<<"L", "1">>, <<"L", "2">>>>, pos |-> 3]
ScenarioMessage == <<"S", "t", "e", "p", " ", "1", "/", "5">>
ScenarioText == <<"o", "k", NL>>
ScenarioSizes == {<<24, 80>>, <<30, 100>>}

\* The arguments format_status_line is applied to on its own.
FormatTexts == UNION {[1..n -> {"a", "b"}] : n \in 0..MaxText}
FormatWidths == 1..MaxWidth

(* -------------------------------- state ------------------------------- *)

VARIABLES
  enabled,                   \* FixedHeader.enabled = sys.stdout.isatty()
  initialized,               \* FixedHeader.initialized
  is_redrawing,              \* FixedHeader.is_redrawing
  header_lines,              \* FixedHeader.header_lines
  header_height,             \* FixedHeader.header_height
  status_position,           \* FixedHeader.status_position
  status_text,               \* FixedHeader.status_text
  step_output,               \* FixedHeader.step_output
  cursor_line,               \* TerminalState.cursor_line
  cursor_col,                \* TerminalState.cursor_col
  terminal_height,           \* TerminalState.terminal_height
  terminal_width,            \* TerminalState.terminal_width
  interceptor,               \* FixedHeader.interceptor is not None
  last_write_ended_newline,  \* OutputInterceptor.last_write_ended_newline
  original_stdout,           \* FixedHeader.original_stdout: "real" | "interceptor"
  sigwinch_handler,          \* FixedHeader.sigwinch_handler (the saved handler)
  sys_stdout,                \* sys.stdout: "real" | "interceptor"
  os_handler,                \* the SIGWINCH disposition: "SIG_DFL" | "handle_resize"
  os_size,                   \* what shutil.get_terminal_size() returns now
  sig_pending,               \* a SIGWINCH was raised and its handler has not run yet
  stack,                     \* the running calls, the innermost last
  stream,                    \* what the real stream received in the current operation
  written,                   \* the arguments of sys.stdout.write in the current operation
  self_captured,             \* a write of the controller itself was captured in it
  body,                      \* the body text forwarded, is_redrawing not set, since the last clear
  cur                        \* the current (or last) top-level operation

prog == <<enabled, initialized, is_redrawing, header_lines, header_height,
          status_position, status_text, step_output, cursor_line, cursor_col,
          terminal_height, terminal_width, interceptor, last_write_ended_newline,
          original_stdout, sigwinch_handler, sys_stdout, os_handler>>

vars == <<prog, os_size, sig_pending, stack, stream, written,
          self_captured, body, cur>>

\* FixedHeader.__init__, but for enabled (is the output a TTY) and for the
\* size of the terminal.
Constructed ==
  /\ initialized = FALSE
  /\ is_redrawing = FALSE
  /\ header_lines = <<>>
  /\ header_height = 0
  /\ status_position = 0
  /\ status_text = <<>>
  /\ step_output = <<>>
  /\ cursor_line = 0
  /\ cursor_col = 1
  /\ terminal_height = 0
  /\ terminal_width = 0
  /\ interceptor = FALSE
  /\ last_write_ended_newline = TRUE
  /\ original_stdout = "real"
  /\ sigwinch_handler = "None"
  /\ sys_stdout = "real"
  /\ os_handler = "SIG_DFL"
  /\ sig_pending = FALSE
  /\ stack = <<>>
  /\ stream = <<>>
  /\ written = <<>>
  /\ self_captured = FALSE
  /\ body = <<>>
  /\ cur = [name |-> "idle", arg |-> <<>>, last |-> "other", nested |-> 0]

Init ==
  /\ enabled \in BOOLEAN
  /\ os_size \in AsyncSizes
  /\ Constructed

\* An interactive terminal of 24 rows by 80 columns.
InitScenario ==
  /\ enabled = TRUE
  /\ os_size = <<24, 80>>
  /\ Constructed

(* ------------------------------- writes ------------------------------- *)

\* What a write can change, threaded through the writes of one step.
Cont == [stream |-> stream, written |-> written, step_output |-> step_output,
         cursor_line |-> cursor_line, cursor_col |-> cursor_col,
         lwen |-> last_write_ended_newline, selfcap |-> self_captured]

\* a cursor reset to column 0
reset_cursor_state_col0(c) == [c EXCEPT !.cursor_line = 0, !.cursor_col = 0]

\* _reset_cursor_state
reset_cursor_state(c) == [c EXCEPT !.cursor_line = 0, !.cursor_col = 1]

append_to_step_output(c, text) ==
  LET log == IF text = <<NL>> /\ c.lwen
               THEN Append(c.step_output, <<>>)
               ELSE IF text # <<NL>>
                 THEN Append(c.step_output, rstrip_newlines(text))
                 ELSE c.step_output
  IN [c EXCEPT !.step_output = log, !.lwen = endswith_newline(text)]

update_cursor_tracking(c, text) ==
  LET pos == get_new_cursor_position(text, c.cursor_line, c.cursor_col)
  IN [c EXCEPT !.cursor_line = pos[1], !.cursor_col = pos[2]]

\* a forward that puts the text in front of what the stream already holds
forward_in_front(c, text) == [c EXCEPT !.stream = <<text>> \o @]

\* a forward that skips empty texts
forward_nonempty(c, text) ==
  IF text = <<>> THEN c ELSE [c EXCEPT !.stream = Append(@, text)]

\* original_stdout.write(text)
forward(c, text) == [c EXCEPT !.stream = Append(@, text)]

\* OutputInterceptor.write capturing even while is_redrawing is set
interceptor_write_unguarded(c, text, own) ==
  LET result == forward(c, text)
  IN IF enabled /\ text # <<>>
       THEN [update_cursor_tracking(append_to_step_output(result, text), text)
               EXCEPT !.selfcap = @ \/ own]
       ELSE result

\* OutputInterceptor.write; own: the caller is the controller itself.
interceptor_write(c, text, own) ==
  LET result == forward(c, text)
  IN IF enabled /\ ~is_redrawing /\ text # <<>>
       THEN [update_cursor_tracking(append_to_step_output(result, text), text)
               EXCEPT !.selfcap = @ \/ own]
       ELSE result

\* out.write(text) for the stream object out
write_to(out, c, text, own) ==
  LET called == [c EXCEPT !.written = Append(@, text)]
  IN IF out = "interceptor"
       THEN interceptor_write(called, text, own)
       ELSE forward(called, text)

\* sys.stdout.write(text), whatever sys.stdout is bound to
stdout_write(c, text, own) == write_to(sys_stdout, c, text, own)

write_sequence(c, sequence) == stdout_write(c, sequence, TRUE)

\* sys.stdout.flush(): OutputInterceptor.flush only forwards
stdout_flush(c) == [c EXCEPT !.stream = Append(@, FLUSH), !.written = Append(@, FLUSH)]

RECURSIVE write_all(_, _)
\* several write_sequence calls in a row
write_all(c, texts) ==
  IF texts = <<>> THEN c
  ELSE write_all(write_sequence(c, Head(texts)), Tail(texts))

\* The step's writes take effect (a capturing write needs room in the log).
Commit(c) ==
  /\ Len(c.step_output) <= MaxLog
  /\ stream' = c.stream
  /\ written' = c.written
  /\ step_output' = c.step_output
  /\ cursor_line' = c.cursor_line
  /\ cursor_col' = c.cursor_col
  /\ last_write_ended_newline' = c.lwen
  /\ self_captured' = c.selfcap

(* ------------------------------- frames ------------------------------- *)

\* hit: a redraw has interrupted the call; log0: step_output when it began
Frame(op, pc, msg) == [op |-> op, pc |-> pc, msg |-> msg, i |-> 0, replay |-> <<>>,
                       hit |-> FALSE, log0 |-> step_output]
Top == stack[Len(stack)]
Running(op, pc) == stack # <<>> /\ Top.op = op /\ Top.pc = pc
Goto(pc) == stack' = [stack EXCEPT ![Len(stack)].pc = pc]
Return == stack' = SubSeq(stack, 1, Len(stack) - 1)

\* The main thread is between two operations.
Idle == stack = <<>> /\ cur.name = "idle"
\* An operation of the main thread, or a resize handler that interrupted
\* nothing, has just returned; cur, stream and written describe it.
Returned == stack = <<>> /\ cur.name # "idle"

\* The main thread starts a public operation.
StartOp(name, arg) == [name |-> name, arg |-> arg, last |-> cur.last, nested |-> 0]

hdr == <<header_lines, header_height, status_position>>
size == <<terminal_height, terminal_width>>
io == <<interceptor, original_stdout, sigwinch_handler, sys_stdout, os_handler>>
env == <<os_size, sig_pending>>

(* ------------------------- public operations -------------------------- *)

\* a set_header_content that stores the header of a disabled controller too
set_header_content_unguarded(h) ==
  /\ Idle
  /\ cur' = StartOp("set_header_content", h)
  /\ Commit(Cont)
  /\ header_lines' = h.lines
  /\ status_position' = h.pos
  /\ header_height' = Len(h.lines)
  /\ terminal_height' = os_size[1]
  /\ terminal_width' = os_size[2]
  /\ UNCHANGED <<enabled, initialized, is_redrawing, status_text, io, env, stack, body>>

set_header_content(h) ==
  /\ Idle
  /\ cur' = StartOp("set_header_content", h)
  /\ Commit(Cont)
  /\ IF ~enabled
       THEN UNCHANGED <<hdr, size>>
       ELSE /\ header_lines' = h.lines
            /\ status_position' = h.pos
            /\ header_height' = Len(h.lines)
            /\ terminal_height' = os_size[1]
            /\ terminal_width' = os_size[2]
  /\ UNCHANGED <<enabled, initialized, is_redrawing, status_text, io, env, stack, body>>

\* line + "\n" for every header line
header_texts == [k \in 1..Len(header_lines) |-> header_lines[k] \o <<NL>>]

\* _setup_terminal_display and _setup_scroll_region for a terminal of height lines
setup_texts(height) ==
  <<CLEAR_SCREEN, HIDE_CURSOR, MOVE_HOME>> \o header_texts
    \o <<set_scroll_region(header_height + 1, height),
         move_to(header_height + 1, 1), SHOW_CURSOR>>

\* a size test that asks for one line less
is_terminal_too_small_by_one(height) == height < header_height + 2

is_terminal_too_small(height) == height < header_height + 3

\* an initialize that does not look at initialized
initialize_is_noop_when_disabled == ~enabled

\* the guard of initialize
initialize_is_noop == ~enabled \/ initialized

\* initialize up to and including _setup_signal_handler: SIGWINCH is not
\* handled before that, so nothing can run in between.
initialize ==
  /\ Idle
  /\ cur' = StartOp("initialize", <<>>)
  /\ IF initialize_is_noop
       THEN /\ Commit(Cont)
            /\ UNCHANGED <<size, initialized, sigwinch_handler, os_handler, stack>>
       ELSE /\ terminal_height' = os_size[1]
            /\ terminal_width' = os_size[2]
            /\ IF is_terminal_too_small(os_size[1])
                 THEN /\ Commit(Cont)
                      /\ UNCHANGED <<initialized, sigwinch_handler, os_handler, stack>>
                 ELSE /\ Commit(stdout_flush(write_all(Cont, setup_texts(os_size[1]))))
                      /\ initialized' = TRUE
                      /\ sigwinch_handler' = os_handler
                      /\ os_handler' = "handle_resize"
                      /\ stack' = <<Frame("initialize", "install", <<>>)>>
  /\ UNCHANGED <<enabled, is_redrawing, hdr, status_text, interceptor,
                 original_stdout, sys_stdout, env, body>>

\* _setup_output_interceptor, the last statement of initialize
setup_output_interceptor ==
  /\ Running("initialize", "install")
  /\ original_stdout' = sys_stdout
  /\ interceptor' = TRUE
  /\ sys_stdout' = "interceptor"
  /\ Commit([Cont EXCEPT !.lwen = TRUE])
  /\ Return
  /\ UNCHANGED <<enabled, initialized, is_redrawing, hdr, status_text, size,
                 sigwinch_handler, os_handler, env, body, cur>>

clear_step_output ==
  /\ Idle
  /\ cur' = StartOp("clear_step_output", <<>>)
  /\ Commit(reset_cursor_state([Cont EXCEPT !.step_output = <<>>]))
  /\ body' = <<>>
  /\ UNCHANGED <<enabled, initialized, is_redrawing, hdr, status_text, size, io,
                 env, stack>>

\* update_status up to self.status_text = message
update_status(message) ==
  /\ Idle
  /\ cur' = StartOp("update_status", message)
  /\ IF ~enabled
       THEN /\ Commit(stdout_write(stdout_write(Cont, green \o message \o reset, TRUE),
                                   <<NL>>, TRUE))
            /\ UNCHANGED <<status_text, stack>>
       ELSE IF ~initialized
         THEN /\ Commit(Cont)
              /\ UNCHANGED <<status_text, stack>>
         ELSE /\ Commit(Cont)
              /\ status_text' = message
              /\ stack' = <<Frame("update_status", "flag", message)>>
  /\ UNCHANGED <<enabled, initialized, is_redrawing, hdr, size, io, env, body>>

\* self.is_redrawing = True
update_status_enter ==
  /\ Running("update_status", "flag")
  /\ is_redrawing' = TRUE
  /\ Goto("save")
  /\ Commit(Cont)
  /\ UNCHANGED <<enabled, initialized, hdr, status_text, size, io, env, body, cur>>

\* _write_status_update, one write (or the flush) at a time
write_status_update ==
  /\ stack # <<>>
  /\ Top.op = "update_status"
  /\ Top.pc \in {"save", "move", "clear", "status", "restore", "flush"}
  /\ LET pc == Top.pc
         text == CASE pc = "save" -> SAVE_CURSOR
                   [] pc = "move" -> move_to(status_position, 1)
                   [] pc = "clear" -> CLEAR_LINE
                   [] pc = "status" -> format_status_line(Top.msg, terminal_width)
                   [] OTHER -> RESTORE_CURSOR
         next == CASE pc = "save" -> "move"
                   [] pc = "move" -> "clear"
                   [] pc = "clear" -> "status"
                   [] pc = "status" -> "restore"
                   [] pc = "restore" -> "flush"
                   [] OTHER -> "unflag"
     IN /\ Commit(IF pc = "flush" THEN stdout_flush(Cont) ELSE write_sequence(Cont, text))
        /\ Goto(next)
  /\ UNCHANGED <<enabled, initialized, is_redrawing, hdr, status_text, size, io,
                 env, body, cur>>

\* an update_status that returns without clearing is_redrawing
update_status_leave_flag_set ==
  /\ Running("update_status", "unflag")
  /\ Return
  /\ Commit(Cont)
  /\ UNCHANGED <<enabled, initialized, is_redrawing, hdr, status_text, size, io, env,
                 body, cur>>

\* self.is_redrawing = False, and update_status returns
update_status_leave ==
  /\ Running("update_status", "unflag")
  /\ is_redrawing' = FALSE
  /\ Return
  /\ Commit(Cont)
  /\ UNCHANGED <<enabled, initialized, hdr, status_text, size, io, env, body, cur>>

\* _cleanup_status_line, written to the stream object out
cleanup_status_texts ==
  <<reset_scroll_region, SAVE_CURSOR, move_to(status_position, 1), CLEAR_LINE,
    RESTORE_CURSOR>>

RECURSIVE write_all_to(_, _, _)
write_all_to(out, c, texts) ==
  IF texts = <<>> THEN c
  ELSE write_all_to(out, write_to(out, c, Head(texts), TRUE), Tail(texts))

\* a cleanup that leaves the SIGWINCH handler registered
restored_handler_kept == os_handler

\* _cleanup_signal_handler: the handler SIGWINCH gets back
restored_handler ==
  IF sigwinch_handler # "None" THEN sigwinch_handler ELSE os_handler

\* a cleanup that does not look at initialized
cleanup_is_noop_when_disabled == ~enabled

\* the guard of cleanup
cleanup_is_noop == ~enabled \/ ~initialized

\* cleanup: its first statement restores the saved SIGWINCH handler, so no
\* handler runs between its statements.
cleanup ==
  /\ Idle
  /\ cur' = StartOp("cleanup", ~cleanup_is_noop)
  /\ IF cleanup_is_noop
       THEN /\ Commit(Cont)
            /\ UNCHANGED <<initialized, io>>
       ELSE LET restored == IF interceptor THEN original_stdout ELSE sys_stdout
            IN /\ os_handler' = restored_handler
               /\ sigwinch_handler' = "None"
               /\ sys_stdout' = restored
               /\ interceptor' = FALSE
               /\ Commit(stdout_flush(write_all_to(restored, Cont, cleanup_status_texts)))
               /\ initialized' = FALSE
               /\ UNCHANGED original_stdout
  /\ UNCHANGED <<enabled, is_redrawing, hdr, status_text, size, env, stack, body>>

\* The program's own output: sys.stdout.write(text) by the main thread.
body_write(text) ==
  /\ Idle
  /\ cur' = StartOp("write", text)
  /\ Commit(stdout_write(Cont, text, FALSE))
  /\ body' = IF sys_stdout = "interceptor" /\ ~is_redrawing THEN body \o text ELSE body
  /\ UNCHANGED <<enabled, initialized, is_redrawing, hdr, status_text, size, io,
                 env, stack>>

(* ------------------------- the resize signal -------------------------- *)

\* The terminal is resized; the OS raises SIGWINCH, which Python notes for the
\* registered handler (under SIG_DFL the signal is dropped).
os_resize(sz) ==
  /\ ~Returned
  /\ sz # os_size
  /\ os_size' = sz
  /\ sig_pending' = (sig_pending \/ os_handler = "handle_resize")
  /\ UNCHANGED <<prog, stack, stream, written, self_captured, body, cur>>

\* SIGWINCH without a change of size (the spurious signal of _handle_resize).
spurious_signal ==
  /\ ~Returned
  /\ os_handler = "handle_resize"
  /\ ~sig_pending
  /\ sig_pending' = TRUE
  /\ UNCHANGED <<prog, os_size, stack, stream, written, self_captured, body, cur>>

\* A noted signal whose handler was un-registered meanwhile is dropped.
drop_signal ==
  /\ ~Returned
  /\ sig_pending
  /\ os_handler # "handle_resize"
  /\ sig_pending' = FALSE
  /\ UNCHANGED <<prog, os_size, stack, stream, written, self_captured, body, cur>>

\* a handler that takes every signal for a change of size
has_terminal_size_changed_always(last_height, last_width, height, width) == TRUE

has_terminal_size_changed(last_height, last_width, height, width) ==
  last_height # height \/ last_width # width

\* _handle_resize runs, between two steps of whatever is running, up to the
\* guard of _redraw_header.
handle_resize ==
  /\ ~Returned
  /\ sig_pending
  /\ os_handler = "handle_resize"
  /\ stack # <<>> => cur.nested < MaxInterrupts
  /\ sig_pending' = FALSE
  /\ Commit(Cont)
  /\ LET redraws == /\ enabled /\ initialized
                    /\ has_terminal_size_changed(terminal_height, terminal_width,
                                                 os_size[1], os_size[2])
                    /\ ~is_terminal_too_small(os_size[1])
     IN /\ IF enabled /\ initialized
             THEN terminal_height' = os_size[1] /\ terminal_width' = os_size[2]
             ELSE UNCHANGED size
        /\ stack' = IF redraws
                      THEN Append([k \in DOMAIN stack |->
                                     IF k = Len(stack) THEN [stack[k] EXCEPT !.hit = TRUE]
                                     ELSE stack[k]],
                                  Frame("redraw", "flag", <<>>))
                      ELSE stack
        /\ cur' = IF stack = <<>>
                    THEN StartOp("resize", [from |-> <<terminal_height, terminal_width>>,
                                            to |-> os_size,
                                            cursor |-> <<cursor_line, cursor_col>>])
                  ELSE IF redraws THEN [cur EXCEPT !.nested = @ + 1] ELSE cur
  /\ UNCHANGED <<enabled, initialized, is_redrawing, hdr, status_text, io,
                 os_size, body>>

\* self.is_redrawing = True
redraw_enter ==
  /\ Running("redraw", "flag")
  /\ is_redrawing' = TRUE
  /\ Goto("reset")
  /\ Commit(Cont)
  /\ UNCHANGED <<enabled, initialized, hdr, status_text, size, io, env, body, cur>>

should_restore_cursor_position == cursor_line > 0 \/ cursor_col > 1

\* a redraw that writes the status sequence whether a status text is set or not
redraw_pc_status_always ==
  LET f == Top
      at_restore == IF should_restore_cursor_position THEN "restore" ELSE "st_save"
  IN CASE f.pc = "header" /\ f.i > Len(header_lines) -> "region"
       [] f.pc = "replay" /\ f.i >= Len(step_output) -> at_restore
       [] f.pc = "restore" /\ ~should_restore_cursor_position -> "st_save"
       [] OTHER -> f.pc

\* The statement a redraw executes next: a loop that has run out and a
\* condition that is false are passed over when the step is taken.
redraw_pc ==
  LET f == Top
      after_status == "flush"
      after_restore == IF f.pc = "st_save" /\ status_text = <<>>
                         THEN after_status ELSE f.pc
      at_status == IF status_text = <<>> THEN after_status ELSE "st_save"
      at_restore == IF should_restore_cursor_position THEN "restore" ELSE at_status
  IN CASE f.pc = "header" /\ f.i > Len(header_lines) -> "region"
       [] f.pc = "replay" /\ f.i >= Len(step_output) -> at_restore
       [] f.pc = "restore" /\ ~should_restore_cursor_position -> at_status
       [] OTHER -> after_restore

RedrawStep(c, pc, i, replay) ==
  /\ Commit(c)
  /\ stack' = [stack EXCEPT ![Len(stack)] = [@ EXCEPT !.pc = pc, !.i = i, !.replay = replay]]
  /\ UNCHANGED <<enabled, initialized, is_redrawing, hdr, status_text, size, io,
                 env, body, cur>>

\* reset scroll region, clear screen, cursor home
redraw_clear ==
  /\ stack # <<>> /\ Top.op = "redraw"
  /\ redraw_pc \in {"reset", "cls", "home"}
  /\ LET pc == redraw_pc
     IN CASE pc = "reset" ->
               RedrawStep(write_sequence(Cont, reset_scroll_region), "cls", 0, <<>>)
          [] pc = "cls" ->
               RedrawStep(write_sequence(Cont, CLEAR_SCREEN), "home", 0, <<>>)
          [] OTHER ->
               RedrawStep(write_sequence(Cont, MOVE_HOME), "header", 1, <<>>)

\* _write_header_lines, one line at a time
write_header_lines ==
  /\ stack # <<>> /\ Top.op = "redraw"
  /\ redraw_pc = "header"
  /\ RedrawStep(write_sequence(Cont, header_lines[Top.i] \o <<NL>>), "header",
                Top.i + 1, <<>>)

\* set the scroll region, move to its top, _reset_cursor_state
redraw_scroll_region ==
  /\ stack # <<>> /\ Top.op = "redraw"
  /\ redraw_pc \in {"region", "move", "origin"}
  /\ LET scroll_start == header_height + 1
         pc == redraw_pc
     IN CASE pc = "region" ->
               RedrawStep(write_sequence(Cont, set_scroll_region(scroll_start, terminal_height)),
                          "move", 0, <<>>)
          [] pc = "move" ->
               RedrawStep(write_sequence(Cont, move_to(scroll_start, 1)), "origin", 0, <<>>)
          [] OTHER ->
               RedrawStep(reset_cursor_state(Cont), "replay", 0, <<>>)

\* _write_step_output_lines: print(line) is write(line) and write("\n"); the
\* last line is written without a newline and flushed.
write_step_output_lines ==
  /\ stack # <<>> /\ Top.op = "redraw"
  /\ redraw_pc \in {"replay", "replay_nl", "replay_flush"}
  /\ LET pc == redraw_pc
         i == Top.i
         line == step_output[i + 1]
     IN CASE pc = "replay" ->
               RedrawStep(write_sequence(Cont, line),
                          IF i < Len(step_output) - 1 THEN "replay_nl" ELSE "replay_flush",
                          i, Top.replay \o line)
          [] pc = "replay_nl" ->
               RedrawStep(write_sequence(Cont, <<NL>>), "replay", i + 1,
                          Top.replay \o <<NL>>)
          [] OTHER ->
               RedrawStep(stdout_flush(Cont), "replay", i + 1, Top.replay)

\* _restore_cursor_to_position and _write_status_if_present, one write at a time
restore_cursor_and_status ==
  /\ stack # <<>> /\ Top.op = "redraw"
  /\ redraw_pc \in {"restore", "st_save", "st_move", "st_text", "st_restore"}
  /\ LET pc == redraw_pc
     IN CASE pc = "restore" ->
               RedrawStep(write_sequence(Cont, move_to(header_height + 1 + cursor_line,
                                                       cursor_col)),
                          "st_save", Top.i, Top.replay)
          [] pc = "st_save" ->
               RedrawStep(write_sequence(Cont, SAVE_CURSOR), "st_move", Top.i, Top.replay)
          [] pc = "st_move" ->
               RedrawStep(write_sequence(Cont, move_to(status_position, 1)), "st_text",
                          Top.i, Top.replay)
          [] pc = "st_text" ->
               RedrawStep(write_sequence(Cont, format_status_line(status_text, terminal_width)),
                          "st_restore", Top.i, Top.replay)
          [] OTHER ->
               RedrawStep(write_sequence(Cont, RESTORE_CURSOR), "flush", Top.i, Top.replay)

\* sys.stdout.flush() at the end of _redraw_header
redraw_flush ==
  /\ stack # <<>> /\ Top.op = "redraw"
  /\ redraw_pc = "flush"
  /\ RedrawStep(stdout_flush(Cont), "unflag", Top.i, Top.replay)

\* self.is_redrawing = False, and the handler returns
redraw_leave ==
  /\ Running("redraw", "unflag")
  /\ is_redrawing' = FALSE
  /\ Return
  /\ Commit(Cont)
  /\ UNCHANGED <<enabled, initialized, hdr, status_text, size, io, env, body, cur>>

\* The operation that has just returned is over: the main thread goes on.
op_return ==
  /\ Returned
  /\ cur' = [name |-> "idle", arg |-> <<>>,
             last |-> IF cur.name = "clear_step_output" \/ (cur.name = "cleanup" /\ cur.arg)
                        THEN cur.name ELSE "other",
             nested |-> 0]
  /\ stream' = <<>>
  /\ written' = <<>>
  /\ self_captured' = FALSE
  /\ UNCHANGED <<prog, env, stack, body>>

(* --------------------------- specification ---------------------------- *)

\* The steps of an operation under way, whatever started it.
Continue ==
  \/ setup_output_interceptor
  \/ update_status_enter
  \/ write_status_update
  \/ update_status_leave
  \/ redraw_enter
  \/ redraw_clear
  \/ write_header_lines
  \/ redraw_scroll_region
  \/ write_step_output_lines
  \/ restore_cursor_and_status
  \/ redraw_flush
  \/ redraw_leave
  \/ op_return

\* SIGWINCH is raised and handled at any point.
Next ==
  \/ \E h \in AsyncHeaders : set_header_content(h)
  \/ initialize
  \/ clear_step_output
  \/ \E m \in AsyncMessages : update_status(m)
  \/ cleanup
  \/ \E t \in AsyncTexts : body_write(t)
  \/ \E sz \in AsyncSizes : os_resize(sz)
  \/ spurious_signal
  \/ drop_signal
  \/ handle_resize
  \/ Continue

Spec == Init /\ [][Next]_vars

\* SIGWINCH is raised and handled only between two operations of the main
\* thread: every operation and every redraw runs without interruption.
NextSeq ==
  \/ \E h \in Headers : set_header_content(h)
  \/ initialize
  \/ clear_step_output
  \/ \E m \in Messages : update_status(m)
  \/ cleanup
  \/ \E t \in Texts : body_write(t)
  \/ \E sz \in Sizes : Idle /\ os_resize(sz)
  \/ Idle /\ spurious_signal
  \/ Idle /\ drop_signal
  \/ Idle /\ handle_resize
  \/ Continue

SpecSeq == Init /\ [][NextSeq]_vars

\* The operations of the end-to-end scenario, in any order, with the resize
\* handled between two operations.
NextScenario ==
  \/ set_header_content(ScenarioHeader)
  \/ initialize
  \/ clear_step_output
  \/ update_status(ScenarioMessage)
  \/ cleanup
  \/ body_write(ScenarioText)
  \/ \E sz \in ScenarioSizes : Idle /\ os_resize(sz)
  \/ Idle /\ spurious_signal
  \/ Idle /\ drop_signal
  \/ Idle /\ handle_resize
  \/ Continue

SpecScenario == InitScenario /\ [][NextScenario]_vars

\* OutputInterceptor.write that captures before it forwards, the forward
\* raising
interceptor_write_raising_late(c, text) ==
  [c |-> IF enabled /\ ~is_redrawing /\ text # <<>>
           THEN update_cursor_tracking(append_to_step_output(c, text), text)
           ELSE c,
   raised |-> TRUE]

\* OutputInterceptor.write when original_stdout.write(text) raises: the
\* exception leaves write at its first statement, nothing catches it.
interceptor_write_raising(c, text) == [c |-> c, raised |-> TRUE]

\* sys.stdout.write(text) by the main thread while the real stream fails.
body_write_fails(text) ==
  /\ Idle
  /\ LET called == [Cont EXCEPT !.written = Append(@, text)]
         r == IF sys_stdout = "interceptor"
                THEN interceptor_write_raising(called, text)
                ELSE [c |-> called, raised |-> TRUE]
     IN /\ Commit(r.c)
        /\ cur' = StartOp(IF r.raised THEN "write_raised" ELSE "write", text)
  /\ UNCHANGED <<enabled, initialized, is_redrawing, hdr, status_text, size, io,
                 env, stack, body>>

\* The call _write_status_update makes at pc.
status_update_call(pc, message) ==
  CASE pc = "save" -> SAVE_CURSOR
    [] pc = "move" -> move_to(status_position, 1)
    [] pc = "clear" -> CLEAR_LINE
    [] pc = "status" -> format_status_line(message, terminal_width)
    [] pc = "restore" -> RESTORE_CURSOR
    [] OTHER -> FLUSH

\* A write (or the flush) of _write_status_update raises: nothing in
\* update_status catches it, so the exception leaves update_status from line
\* 275 and line 276 is not executed.
update_status_write_fails ==
  /\ stack # <<>>
  /\ Top.op = "update_status"
  /\ Top.pc \in {"save", "move", "clear", "status", "restore", "flush"}
  /\ Commit([Cont EXCEPT !.written = Append(@, status_update_call(Top.pc, Top.msg))])
  /\ Return
  /\ cur' = [cur EXCEPT !.name = "update_status_raised"]
  /\ UNCHANGED <<enabled, initialized, is_redrawing, hdr, status_text, size, io,
                 env, body>>

\* The call _redraw_header makes at pc.
redraw_call(pc) ==
  CASE pc = "reset" -> reset_scroll_region
    [] pc = "cls" -> CLEAR_SCREEN
    [] pc = "home" -> MOVE_HOME
    [] pc = "header" -> header_lines[Top.i] \o <<NL>>
    [] pc = "region" -> set_scroll_region(header_height + 1, terminal_height)
    [] pc = "move" -> move_to(header_height + 1, 1)
    [] pc = "replay" -> step_output[Top.i + 1]
    [] pc = "replay_nl" -> <<NL>>
    [] pc = "restore" -> move_to(header_height + 1 + cursor_line, cursor_col)
    [] pc = "st_save" -> SAVE_CURSOR
    [] pc = "st_move" -> move_to(status_position, 1)
    [] pc = "st_text" -> format_status_line(status_text, terminal_width)
    [] pc = "st_restore" -> RESTORE_CURSOR
    [] OTHER -> FLUSH

\* A write (or a flush) of _redraw_header raises: neither _redraw_header nor
\* _handle_resize catches it, line 215 is not executed and the exception is
\* raised in the main thread, where the handler ran.
redraw_write_fails ==
  /\ stack # <<>>
  /\ Top.op = "redraw"
  /\ redraw_pc \notin {"flag", "origin", "unflag"}
  /\ Commit([Cont EXCEPT !.written = Append(@, redraw_call(redraw_pc))])
  /\ stack' = <<>>
  /\ cur' = [cur EXCEPT !.name = "resize_raised"]
  /\ UNCHANGED <<enabled, initialized, is_redrawing, hdr, status_text, size, io,
                 env, body>>

\* The operations, with the resize handled between two of them and a real
\* stream that may fail a write of the program or of the controller.
NextFail ==
  \/ \E h \in AsyncHeaders : set_header_content(h)
  \/ initialize
  \/ clear_step_output
  \/ \E m \in AsyncMessages : update_status(m)
  \/ cleanup
  \/ \E t \in Texts : body_write(t)
  \/ \E t \in Texts : body_write_fails(t)
  \/ update_status_write_fails
  \/ redraw_write_fails
  \/ \E sz \in AsyncSizes : Idle /\ os_resize(sz)
  \/ Idle /\ spurious_signal
  \/ Idle /\ drop_signal
  \/ Idle /\ handle_resize
  \/ Continue

SpecFail == Init /\ [][NextFail]_vars

\* format_status_line(text, terminal_width) called on its own; what it
\* returns is put on the stream.
format_apply(text, width) ==
  /\ Idle
  /\ cur' = StartOp("format_status_line", [text |-> text, width |-> width])
  /\ stream' = <<format_status_line(text, width)>>
  /\ UNCHANGED <<prog, env, stack, written, self_captured, body>>

NextFormat ==
  \E text \in FormatTexts, width \in FormatWidths :
    format_apply(text, width)

SpecFormat == InitScenario /\ [][NextFormat]_vars

(* ------------------------------ properties ---------------------------- *)

\* The step makes sys.stdout.write or sys.stdout.flush calls on the
\* interceptor.
WritesThroughInterceptor ==
  /\ sys_stdout = "interceptor" /\ sys_stdout' = "interceptor"
  /\ Len(written') > Len(written)

\* The call on top of the stack is a status update or a redraw that no
\* resize has interrupted.
UninterruptedRedrawing ==
  /\ stack # <<>>
  /\ Top.op \in {"update_status", "redraw"}
  /\ ~Top.hit

C1_Step ==
  (is_redrawing /\ WritesThroughInterceptor)
    => /\ UNCHANGED <<step_output, cursor_line, cursor_col, last_write_ended_newline>>
       /\ Len(stream') > Len(stream)

\* C1: a write through the interceptor while is_redrawing is set is forwarded
\* and leaves step_output and the tracked cursor as they are; and at every
\* point of an update_status or of a redraw that no resize has interrupted,
\* step_output is what it was when the operation began.
C1_RedrawingWritesNotCaptured ==
  /\ [][C1_Step]_vars
  /\ [](UninterruptedRedrawing => step_output = Top.log0)

\* A redraw that nothing interrupted has replayed a non-empty log through the
\* interceptor and is about to return.
C1_Witness ==
  /\ Running("redraw", "unflag")
  /\ ~Top.hit
  /\ is_redrawing
  /\ sys_stdout = "interceptor"
  /\ Top.replay # <<>>
  /\ step_output # <<>>

\* C2: wherever resize signals are delivered, no write of the controller
\* itself is captured, and is_redrawing stays set from the moment the
\* outermost update_status or redraw has set it until that call clears it.
C2_GuardHeldUntilOutermostDone ==
  /\ ~self_captured
  /\ (stack # <<>> /\ stack[1].op \in {"update_status", "redraw"} /\ stack[1].pc # "flag")
       => is_redrawing

\* The main thread calls the public operation name.
Calls(name) == Idle /\ cur'.name = name

\* The number of newline characters of text.
Newlines(text) == Cardinality({k \in 1..Len(text) : text[k] = NL})

\* text without its trailing newline characters.
Stripped(text) ==
  LET ends == {k \in 0..Len(text) : k = 0 \/ text[k] # NL}
      n == CHOOSE k \in ends : \A j \in ends : j <= k
  IN SubSeq(text, 1, n)

\* C3: whatever the state of the controller, the real stream has received
\* exactly the arguments of the sys.stdout.write calls made so far in the
\* current operation, each once, unmodified and in call order.
C3_ForwardedUnmodified == stream = written

\* An empty text written through the interceptor has reached the real stream.
C3_Witness ==
  /\ Returned
  /\ cur.name = "write" /\ cur.arg = <<>>
  /\ sys_stdout = "interceptor"
  /\ stream = <<<<>>>>

\* The two texts are equal, or differ by one newline at the very end.
SameUpToFinalNewline(a, b) == a = b \/ a = b \o <<NL>> \/ a \o <<NL>> = b

\* C4: when a redraw that followed a resize to changed, sufficient dimensions
\* has replayed step_output, the text it replayed is the body text forwarded
\* since the last clear_step_output, up to one final newline.
C4_ReplayIsForwardedBody ==
  (Running("redraw", "unflag") /\ ~Top.hit)
    => SameUpToFinalNewline(Top.replay, body)

C5_Step ==
  (Calls("initialize") /\ enabled /\ ~initialized)
    => IF os_size[1] >= Len(header_lines) + 3
         THEN /\ initialized'
              /\ os_handler' = "handle_resize"
              /\ stack' # <<>>
         ELSE /\ ~initialized'
              /\ stream' = <<>> /\ written' = <<>>
              /\ stack' = <<>>
              /\ sys_stdout' = "real" /\ ~interceptor'
              /\ os_handler' = "SIG_DFL"

\* C5: initialize on an enabled, uninitialized controller with h header lines
\* on a terminal of H lines: if H >= h + 3 the controller becomes initialized
\* with the resize handler registered and, when initialize returns, the
\* interceptor installed; if H < h + 3 it stays uninitialized, nothing is
\* written, and neither the interceptor nor the handler is installed.
C5_InitializeBySize ==
  /\ [][C5_Step]_vars
  /\ []((Returned /\ cur.name = "initialize" /\ initialized)
          => (interceptor /\ sys_stdout = "interceptor" /\ os_handler = "handle_resize"))

\* initialize has returned without activating a controller whose terminal is
\* one line short of its two header lines plus three.
C5_Witness ==
  /\ Returned
  /\ cur.name = "initialize"
  /\ enabled /\ ~initialized
  /\ header_height = 2 /\ os_size[1] = 4
  /\ sys_stdout = "real" /\ os_handler = "SIG_DFL"

\* The step is _handle_resize.
HandlesResize == sig_pending /\ ~sig_pending' /\ os_handler = "handle_resize"

C6_Step ==
  (HandlesResize /\ os_size = <<terminal_height, terminal_width>>)
    => /\ UNCHANGED <<prog, stack, body>>
       /\ stream' = stream /\ written' = written

\* C6: a resize signal handled while the size the system reports equals the
\* cached terminal_height and terminal_width writes nothing and changes no
\* field of the controller.
C6_UnchangedSizeIsNoop == [][C6_Step]_vars

\* The handler has returned from a signal that came without a change of
\* size, on a controller with a log and a status text.
C6_Witness ==
  /\ Returned
  /\ cur.name = "resize" /\ cur.arg.from = cur.arg.to
  /\ initialized
  /\ step_output # <<>> /\ status_text # <<>>
  /\ stream = <<>>

C7_Step ==
  Calls("cleanup")
    => /\ (enabled /\ initialized)
            => (~initialized' /\ sys_stdout' = "real" /\ os_handler' = "SIG_DFL")
       /\ cur.last = "cleanup"
            => (~initialized' /\ UNCHANGED prog /\ stream' = <<>> /\ written' = <<>>)

\* C7: cleanup on an initialized controller leaves it uninitialized, and a
\* cleanup called right after such a cleanup writes nothing, changes no field
\* and leaves the controller uninitialized.
C7_CleanupIdempotent == [][C7_Step]_vars

\* The second of two cleanups in a row has returned, the first having found
\* the controller initialized.
C7_Witness ==
  /\ Returned
  /\ cur.name = "cleanup" /\ cur.last = "cleanup"
  /\ enabled /\ ~initialized
  /\ stream = <<>>

C8_Step ==
  Calls("clear_step_output")
    => /\ step_output' = <<>> /\ cursor_line' = 0 /\ cursor_col' = 1
       /\ cur.last = "clear_step_output" => UNCHANGED prog

\* C8: clear_step_output leaves step_output empty and the cursor at line 0,
\* column 1 from any state, and a second call right after the first changes
\* nothing.
C8_ClearIdempotent == [][C8_Step]_vars

\* The second of two clear_step_output calls in a row has returned on an
\* initialized controller.
C8_Witness ==
  /\ Returned
  /\ cur.name = "clear_step_output" /\ cur.last = "clear_step_output"
  /\ initialized /\ status_text # <<>>
  /\ step_output = <<>> /\ cursor_line = 0 /\ cursor_col = 1

\* The program writes body text through the interceptor while the controller
\* is enabled and is_redrawing is not set.
CapturingWrite ==
  Calls("write") /\ sys_stdout = "interceptor" /\ enabled /\ ~is_redrawing

C9_Step ==
  (CapturingWrite /\ initialized)
    => LET text == cur'.arg
           k == Newlines(text)
       IN IF k >= 1
            THEN cursor_line' = cursor_line + k /\ cursor_col' = 1
            ELSE cursor_line' = cursor_line /\ cursor_col' = cursor_col + Len(text)

\* C9: on an initialized controller that is not redrawing, a write holding
\* k >= 1 newlines adds k to cursor_line and sets cursor_col to 1, and a write
\* holding no newline leaves cursor_line and adds the length of the text to
\* cursor_col; so after writes without newline and one write with k newlines
\* cursor_line is its value before the sequence plus k.
C9_CursorTracking == [][C9_Step]_vars

\* After a write without newline, a write with two newlines has moved the
\* cursor two lines down to column 1.
C9_Witness ==
  /\ Returned
  /\ cur.name = "write" /\ cur.arg = <<"a", NL, NL>>
  /\ initialized /\ sys_stdout = "interceptor"
  /\ step_output = <<<<"a">>, <<"a">>>>
  /\ cursor_line = 2 /\ cursor_col = 1

C10_OriginalStep ==
  CapturingWrite
    => LET text == cur'.arg
       IN step_output' =
            CASE text = <<NL>> /\ last_write_ended_newline -> Append(step_output, <<>>)
              [] text = <<NL>> /\ ~last_write_ended_newline -> step_output
              [] OTHER -> Append(step_output, Stripped(text))

\* C10 as stated: every write that is not exactly one newline appends one
\* entry, the text without its trailing newlines.
C10_EveryOtherWriteAppends == [][C10_OriginalStep]_vars

C10_AmendedStep ==
  CapturingWrite
    => LET text == cur'.arg
       IN /\ step_output' =
               CASE text = <<>> -> step_output
                 [] text = <<NL>> /\ last_write_ended_newline -> Append(step_output, <<>>)
                 [] text = <<NL>> /\ ~last_write_ended_newline -> step_output
                 [] OTHER -> Append(step_output, Stripped(text))
          /\ last_write_ended_newline' =
               IF text = <<>> THEN last_write_ended_newline
               ELSE text[Len(text)] = NL

\* C10: while the controller is enabled and not redrawing, a write of the
\* empty text appends nothing and leaves last_write_ended_newline; a write of
\* exactly one newline appends one empty entry if last_write_ended_newline is
\* set and nothing otherwise; any other write appends one entry, the text
\* without its trailing newlines; and a non-empty write sets
\* last_write_ended_newline to whether the text ends with a newline.
C10_NonEmptyWriteAppends == [][C10_AmendedStep]_vars

\* A write ending in two newlines has appended its text without them.
C10_Witness ==
  /\ Returned
  /\ cur.name = "write" /\ cur.arg = <<"a", NL, NL>>
  /\ sys_stdout = "interceptor"
  /\ step_output = <<<<"a">>>>
  /\ last_write_ended_newline

C11_Step ==
  ((Calls("update_status") /\ enabled /\ initialized)
     \/ (stack # <<>> /\ Top.op = "update_status"))
    => UNCHANGED <<step_output, cursor_line, cursor_col>>

\* C11: update_status(message) on an initialized controller writes, in this
\* order, SAVE_CURSOR, move_to(status_position, 1), CLEAR_LINE, the status
\* line formatted for the cached terminal_width and RESTORE_CURSOR, then
\* flushes; when it returns status_text is message and is_redrawing is not
\* set, and none of its steps changes step_output or the tracked cursor.
C11_StatusUpdateSequence ==
  /\ [][C11_Step]_vars
  /\ []((Returned /\ cur.name = "update_status" /\ enabled /\ initialized)
          => /\ written = <<SAVE_CURSOR, move_to(status_position, 1), CLEAR_LINE,
                            format_status_line(cur.arg, terminal_width),
                            RESTORE_CURSOR, FLUSH>>
             /\ stream = written
             /\ status_text = cur.arg
             /\ ~is_redrawing)

\* update_status has returned on an initialized controller whose log is not
\* empty and whose cursor stands in the middle of a line.
C11_Witness ==
  /\ Returned
  /\ cur.name = "update_status"
  /\ enabled /\ initialized
  /\ step_output # <<>> /\ cursor_col > 1
  /\ status_text = cur.arg
  /\ Len(written) = 6

\* The text is a sequence that sets a scroll region.
SetsScrollRegion(text) == Len(text) >= 2 /\ text[1] = ESC /\ text[Len(text)] = "r"

C12_Step ==
  (/\ Calls("initialize") /\ enabled /\ ~initialized
   /\ Len(header_lines) = 2 /\ status_position = 3
   /\ os_size = <<24, 80>>)
    => \E k \in DOMAIN written' :
         /\ written'[k] = <<ESC, "[", "4", ";", "2", "4", "r">>
         /\ \A j \in DOMAIN written' : SetsScrollRegion(written'[j]) => j = k

\* C12: with two header lines, the status on row 3 and a terminal of 24 rows
\* by 80 columns, initialize writes exactly one scroll-region sequence, the
\* one for rows 4 to 24 (ESC [ 4 ; 24 r).
C12_ScrollRegionOfScenario == [][C12_Step]_vars

\* A resize event: the terminal changes size, or SIGWINCH is raised, handled
\* or dropped.
ResizeEvent == os_size' # os_size \/ sig_pending' # sig_pending

C13_Step ==
  /\ (Calls("cleanup") /\ enabled /\ initialized)
       => /\ sys_stdout' = "real" /\ ~interceptor'
          /\ os_handler' = "SIG_DFL"
          /\ written' = cleanup_status_texts \o <<FLUSH>>
          /\ stream' = written'
          /\ ~self_captured'
          /\ UNCHANGED <<step_output, cursor_line, cursor_col>>
  /\ (enabled /\ ~initialized /\ (Calls("write") \/ ResizeEvent))
       => UNCHANGED <<step_output, cursor_line, cursor_col>>

\* C13: cleanup on an initialized controller restores sys.stdout and the
\* previous SIGWINCH handler and writes its sequences to the real stream
\* without any of them being captured; and as long as the controller stays
\* uninitialized sys.stdout is the real stream, no handler is registered, and
\* no write and no resize event changes step_output or the tracked cursor.
C13_NothingCapturedAfterCleanup ==
  /\ [][C13_Step]_vars
  /\ []((enabled /\ ~initialized) => (sys_stdout = "real" /\ os_handler = "SIG_DFL"))

\* The program has written a text right after the cleanup of an initialized
\* controller whose log was not empty.
C13_Witness ==
  /\ Returned
  /\ cur.name = "write" /\ cur.arg = <<"a">>
  /\ cur.last = "cleanup"
  /\ enabled /\ ~initialized
  /\ step_output # <<>>
  /\ stream = <<<<"a">>>>

\* What the step makes the program write: the arguments of its
\* sys.stdout.write and flush calls, in call order.
NewlyWritten == SubSeq(written', Len(written) + 1, Len(written'))

C14_Step ==
  IF Returned
    THEN stream' = <<>>
    ELSE stream' = stream \o NewlyWritten

\* C14: stream is what the real stream has received since the current
\* operation began.  Every step appends to it exactly what the step writes,
\* in call order, and nothing is held back when an operation returns: after
\* a body write the stream has received its text, and after update_status on
\* an initialized controller it has received the six calls of the status
\* update and nothing else.  So the real stream as a whole receives the body
\* writes and the status updates in call order.
C14_StreamInCallOrder ==
  /\ [][C14_Step]_vars
  /\ [](Idle => stream = <<>>)
  /\ []((Returned /\ cur.name = "write") => stream = <<cur.arg>>)
  /\ []((Returned /\ cur.name = "update_status" /\ enabled /\ initialized)
          => (Len(stream) = 6 /\ stream[1] = SAVE_CURSOR /\ stream[6] = FLUSH))

\* update_status has returned after the program had written body text through
\* the interceptor.
C14_Witness ==
  /\ Returned
  /\ cur.name = "update_status"
  /\ initialized /\ sys_stdout = "interceptor"
  /\ body # <<>>
  /\ Len(stream) = 6

\* The text holds the escape character.
HasEscape(text) == \E k \in DOMAIN text : text[k] = ESC

\* C15: a controller that is not enabled never sends an escape sequence to
\* the stream, whatever operations and resize events happen.
C15_DisabledEmitsNoEscape ==
  ~enabled => \A k \in DOMAIN stream : ~HasEscape(stream[k])

\* C16: a controller constructed disabled stays disabled: it is never
\* initialized, the interceptor and the resize handler are never installed,
\* and the header fields keep the values of the constructor.
C16_DisabledIsPermanent ==
  /\ [][~enabled => ~enabled']_vars
  /\ [](~enabled
          => /\ ~initialized
             /\ ~interceptor /\ sys_stdout = "real"
             /\ os_handler = "SIG_DFL" /\ sigwinch_handler = "None"
             /\ header_lines = <<>> /\ header_height = 0 /\ status_position = 0)

\* set_header_content has returned on a disabled controller, called with two
\* header lines.
C16_Witness ==
  /\ Returned
  /\ ~enabled
  /\ cur.name = "set_header_content" /\ Len(cur.arg.lines) = 2
  /\ header_lines = <<>>

C17_Step ==
  (/\ enabled /\ ~initialized
   /\ \/ Calls("update_status")
      \/ Calls("clear_step_output")
      \/ Calls("cleanup")
      \/ ResizeEvent)
    => (UNCHANGED prog /\ stream' = stream)

\* C17: on an enabled controller that is not initialized, update_status,
\* clear_step_output, cleanup and a resize event change no field of the
\* controller and write nothing.
C17_UninitializedOperationsAreNoops == [][C17_Step]_vars

C18_Step ==
  (initialized /\ initialized')
    => /\ UNCHANGED hdr
       /\ size' # size => (stack' # <<>> /\ stack'[Len(stack')].op = "redraw")

\* C18: while the controller stays initialized no step changes header_lines,
\* header_height or status_position, and a step that changes the cached
\* terminal size starts a redraw.
C18_HeaderFixedWhileActive == [][C18_Step]_vars

\* The text between the colour prefix and the reset suffix of a status line.
Visible(line) == SubSeq(line, Len(green) + 1, Len(line) - Len(reset))

\* text padded with spaces on the right to width characters.
Padded(text, width) == text \o [k \in 1..(width - Len(text)) |-> " "]

\* C19: for every text and every width >= 1 the visible part of
\* format_status_line(text, width) has exactly width characters: it is the
\* text, if that has at most width - 1 characters, and otherwise the first
\* width - 4 characters of the text followed by "...", padded on the right.
C19_StatusLineHasWidth ==
  (cur.name = "format_status_line")
    => LET text == cur.arg.text
           width == cur.arg.width
           cut == IF Len(text) <= width - 1
                    THEN text
                    ELSE SubSeq(text, 1, width - 4) \o <<".", ".", ".">>
       IN /\ Len(Visible(stream[1])) = width
          /\ Visible(stream[1]) = Padded(cut, width)

\* The step is a write of the program that the real stream fails: the call is
\* made and the stream receives nothing.
FailedForward == Idle /\ Len(written') = 1 /\ stream' = <<>>

C20_Step ==
  FailedForward
    => /\ cur'.name = "write_raised"
       /\ cur'.arg = written'[1]
       /\ UNCHANGED <<step_output, cursor_line, cursor_col, last_write_ended_newline>>

\* C20: when the real stream fails the forward of a write, the write raises
\* to its caller, and step_output, the tracked cursor and
\* last_write_ended_newline are what they were before the call.
C20_FailedForwardChangesNothing == [][C20_Step]_vars

\* A write through the interceptor of an enabled controller has raised, with
\* a log that is not empty and the cursor in the middle of a line.
C20_Witness ==
  /\ Returned
  /\ cur.name = "write_raised" /\ cur.arg = <<"a", NL, NL>>
  /\ enabled /\ sys_stdout = "interceptor" /\ ~is_redrawing
  /\ step_output # <<>> /\ cursor_col > 1
  /\ stream = <<>>

\* The resize handler has returned from a full redraw that it ran between two
\* operations of the main thread.
RedrawReturned == Returned /\ cur.name = "resize" /\ written # <<>>

\* C21: when a redraw has returned and the tracked cursor before the resize
\* was not at the origin, the redraw has written the move to row
\* header_height + 1 + cursor_line, column cursor_col of that cursor, and
\* cursor_line and cursor_col are what they were before the resize.
C21_RedrawRestoresCursor ==
  (RedrawReturned /\ cur.arg.cursor # <<0, 1>>)
    => /\ \E k \in DOMAIN written :
            written[k] = move_to(header_height + 1 + cur.arg.cursor[1], cur.arg.cursor[2])
       /\ <<cursor_line, cursor_col>> = cur.arg.cursor

\* What _write_step_output_lines writes for the log: every entry in order, a
\* newline after each but the last, a flush after the last.
ReplayWrites(log) ==
  [j \in 1..(2 * Len(log)) |->
     IF j % 2 = 1 THEN log[(j + 1) \div 2]
     ELSE IF j < 2 * Len(log) THEN <<NL>> ELSE FLUSH]

\* What a redraw writes for the status text on a terminal of width columns.
StatusWrites(text, width) ==
  IF text = <<>> THEN <<>>
  ELSE <<SAVE_CURSOR, move_to(status_position, 1), format_status_line(text, width),
         RESTORE_CURSOR>>

C22_Step ==
  (/\ HandlesResize /\ Idle /\ enabled /\ initialized
   /\ os_size # <<terminal_height, terminal_width>>
   /\ os_size[1] >= Len(header_lines) + 3)
    => (stack' # <<>> /\ Top'.op = "redraw")

\* C22: a resize to changed dimensions H, W with H >= header lines + 3 starts
\* a redraw, and when the redraw has returned it has written, in this order:
\* reset scroll region, clear screen, cursor home, every header line, the
\* scroll region header lines + 1 to H, the move to the top of that region,
\* every entry of step_output in log order, then, if and only if status_text
\* is not empty, save cursor, the move to the status row, the status line
\* formatted for W and restore cursor, and last a flush.
C22_RedrawOrder ==
  /\ [][C22_Step]_vars
  /\ [](RedrawReturned
          => /\ cur.arg.to = <<terminal_height, terminal_width>>
             /\ written =
                  <<reset_scroll_region, CLEAR_SCREEN, MOVE_HOME>>
                    \o [k \in 1..Len(header_lines) |-> header_lines[k] \o <<NL>>]
                    \o <<set_scroll_region(Len(header_lines) + 1, cur.arg.to[1]),
                         move_to(Len(header_lines) + 1, 1)>>
                    \o ReplayWrites(step_output)
                    \o StatusWrites(status_text, cur.arg.to[2])
                    \o <<FLUSH>>
             /\ stream = written)

\* A redraw of two header lines, a log of two entries and a status text has
\* returned on the resized terminal.
C22_Witness ==
  /\ RedrawReturned
  /\ Len(header_lines) = 2 /\ Len(step_output) = 2 /\ status_text # <<>>
  /\ cur.arg.from # cur.arg.to
  /\ Len(written) = 3 + 2 + 2 + 4 + 4 + 1

C23_Step ==
  (HandlesResize /\ Idle /\ enabled /\ initialized)
    => /\ os_size[1] < Len(header_lines) + 3
            => /\ stream' = stream /\ written' = written
               /\ stack' = <<>>
               /\ UNCHANGED <<enabled, initialized, is_redrawing, hdr, status_text,
                              step_output, cursor_line, cursor_col,
                              last_write_ended_newline, io, body>>
               /\ <<terminal_height', terminal_width'>> = os_size
       /\ (terminal_height < Len(header_lines) + 3 /\ os_size[1] >= Len(header_lines) + 3)
            => (stack' # <<>> /\ Top'.op = "redraw")

\* C23: on an active controller, a resize to a terminal of fewer than header
\* lines + 3 rows writes nothing and changes nothing but the cached
\* terminal_height and terminal_width, which take the size the system
\* reports; a later resize from such a size to one of at least header lines
\* + 3 rows starts a redraw, which writes the full sequence from the reset of
\* the scroll region to the flush.
C23_TooSmallResizeIsNoop ==
  /\ [][C23_Step]_vars
  /\ []((RedrawReturned /\ cur.arg.from[1] < Len(header_lines) + 3)
          => /\ written[1] = reset_scroll_region
             /\ written[Len(written)] = FLUSH
             /\ \E k \in DOMAIN written :
                  written[k] = set_scroll_region(Len(header_lines) + 1, os_size[1]))

\* After a resize to a terminal that was too small, a resize to a sufficient
\* one has redrawn the header, the log and the status.
C23_Witness ==
  /\ RedrawReturned
  /\ cur.arg.from[1] < Len(header_lines) + 3
  /\ cur.arg.to[1] >= Len(header_lines) + 3
  /\ step_output # <<>> /\ status_text # <<>>
  /\ Len(written) > 6

\* The number of logical lines of text: the lines a newline ends, and the
\* unfinished line after the last newline if there is one.
LogicalLines(text) ==
  Newlines(text) + (IF text # <<>> /\ text[Len(text)] # NL THEN 1 ELSE 0)

\* C24: the fragments of one line are merged into one entry, so step_output
\* never holds more entries than the body text forwarded through the
\* interceptor since the last clear_step_output has logical lines.
C24_FragmentsMerged == Len(step_output) <= LogicalLines(body)

\* C25: whenever the controller is initialized, status_position is a row of
\* the header, 1 <= status_position <= number of header lines, hence no row
\* of the scroll region, which starts at header lines + 1.
C25_StatusRowInHeader ==
  initialized => (1 <= status_position /\ status_position <= Len(header_lines))

C26_Step ==
  (stack # <<>> /\ Top.op = "redraw" /\ Len(written') = Len(written) + 1)
    => LET text == written'[Len(written')]
       IN /\ redraw_pc = "region"
               => text = set_scroll_region(header_height + 1, os_size[1])
          /\ redraw_pc = "st_text"
               => text = format_status_line(status_text, os_size[2])

\* C26: the scroll region a redraw sets ends at the number of lines the
\* system reports at the moment it is written, and the status line a redraw
\* writes is formatted for the number of columns the system reports at that
\* moment, also when the size has changed since the handler read it.
C26_SizeCurrentAtEmission == [][C26_Step]_vars

\* The number of log entries the replay loop of the redraw f has written.
ReplayedEntries(f) ==
  IF f.pc \in {"replay_nl", "replay_flush"} THEN f.i + 1
  ELSE IF f.pc \in {"flag", "reset", "cls", "home", "header", "region", "move", "origin"}
    THEN 0
    ELSE f.i

\* The replay loop of the redraw f will take a further entry of step_output.
ReplayGoesOn(f) == f.pc = "replay" /\ f.i < Len(step_output)

\* C27: the replay loop of every redraw, interrupted by a nested redraw or
\* not, has written no more entries than step_output held when the redraw
\* started, and once it has written that many it takes no further entry.
C27_ReplayBounded ==
  \A k \in DOMAIN stack :
    stack[k].op = "redraw"
      => /\ ReplayedEntries(stack[k]) <= Len(stack[k].log0)
         /\ ReplayGoesOn(stack[k]) => stack[k].i < Len(stack[k].log0)

\* A write of update_status or of a redraw has failed and the exception has
\* reached the caller.
OwnWriteRaised == Returned /\ cur.name \in {"update_status_raised", "resize_raised"}

\* C28: after a write to the real stream has failed during update_status or
\* during a redraw, is_redrawing is not set, so that the body writes that
\* follow are captured.
C28_FailureLeavesRedrawingClear == OwnWriteRaised => ~is_redrawing

C29_Step ==
  (Calls("initialize") /\ initialized)
    => /\ UNCHANGED prog
       /\ stream' = <<>> /\ written' = <<>>
       /\ stack' = <<>>

\* C29: whenever no operation is running, the interceptor is installed as
\* sys.stdout exactly if the controller is initialized, and the resize
\* handler is registered exactly if it is initialized; initialize on an
\* initialized controller changes no field and writes nothing; the stream the
\* interceptor wraps is never the interceptor, and the handler saved for the
\* restoration is never the controller's own handler.
C29_InstalledIffActive ==
  /\ [][C29_Step]_vars
  /\ [](stack = <<>>
          => /\ initialized <=> (interceptor /\ sys_stdout = "interceptor")
             /\ initialized <=> (os_handler = "handle_resize"))
  /\ [](original_stdout = "real" /\ sigwinch_handler # "handle_resize")

\* initialize has returned from a call on an initialized controller, having
\* written nothing.
C29_Witness ==
  /\ Returned
  /\ cur.name = "initialize"
  /\ initialized /\ written = <<>>
  /\ sys_stdout = "interceptor" /\ original_stdout = "real"
  /\ os_handler = "handle_resize" /\ sigwinch_handler = "SIG_DFL"

\* C30: when an initialize that follows a cleanup of an initialized
\* controller has activated the controller again, step_output is empty, the
\* tracked cursor is at line 0, column 1 and status_text is empty, as after
\* the first initialize of a fresh controller.
C30_ReinitializeStartsFresh ==
  (/\ Returned /\ cur.name = "initialize" /\ cur.last = "cleanup"
   /\ initialized /\ written # <<>>)
    => /\ step_output = <<>>
       /\ cursor_line = 0 /\ cursor_col = 1
       /\ status_text = <<>>
====
